---- MODULE Spec2Model ----
(***************************************************************************)
(* Model of tux/ui/embeds.py: EmbedCreator.create_embed and                *)
(* EmbedCreator.get_footer.                                                *)
(*                                                                         *)
(* Python values are modelled as follows.                                  *)
(*   - An optional argument (str | None, int | None, ...) is a record:     *)
(*     None is [some |-> FALSE], a value v is [some |-> TRUE, val |-> v].  *)
(*   - Strings are TLA+ strings, f-strings are concatenations (\o) and the *)
(*     decimal rendering of an int is ToString.                            *)
(*   - bot.latency is a float of seconds; it is modelled as an exact       *)
(*     number of ticks of 1/10000 s, so that latency * 1000 is ticks / 10  *)
(*     milliseconds and round() is Python's round-half-to-even.            *)
(*   - A call either returns a value or raises: the result of a modelled   *)
(*     function is [ok |-> TRUE, value |-> v, log |-> l] or                *)
(*     [ok |-> FALSE, exc |-> e, log |-> l], log being the logger.debug    *)
(*     messages emitted on the way.                                        *)
(***************************************************************************)
EXTENDS Integers, Sequences, FiniteSets, TLC

VARIABLES pc, args, embed, exc, log

vars == <<pc, args, embed, exc, log>>

----------------------------------------------------------------------------
(* Bounds *)

\* latencies k * 0.5 ms, k \in 0..MaxLatencyHalfMs, are read from the bot
MaxLatencyHalfMs == 3

----------------------------------------------------------------------------
(* Python values *)

None == [some |-> FALSE]

Some(v) == [some |-> TRUE, val |-> v]

\* truthiness of a str | None: None and "" are falsy
TruthyStr(o) == o.some /\ o.val # ""

\* truthiness of an int | None: None and 0 are falsy
TruthyInt(o) == o.some /\ o.val # 0

\* truthiness of an object | None without __bool__/__len__ (Tux, datetime)
TruthyObj(o) == o.some

\* x or y, for str | None operands
OrStr(x, y) == IF TruthyStr(x) THEN x ELSE y

\* x or y, for object | None operands
OrObj(x, y) == IF TruthyObj(x) THEN x ELSE y

Returns(v, l) == [ok |-> TRUE, value |-> v, log |-> l]

Raises(e, l) == [ok |-> FALSE, exc |-> e, log |-> l]

\* Round with the fraction dropped, as int() would
Round_Truncate(num, den) == num \div den

\* round(num / den) for num >= 0, den > 0: nearest integer, ties to even
Round(num, den) ==
    LET q == num \div den
        r == num % den
    IN  IF 2 * r < den THEN q
        ELSE IF 2 * r > den THEN q + 1
        ELSE IF q % 2 = 0 THEN q ELSE q + 1

----------------------------------------------------------------------------
(* EmbedType and the constants table *)

EmbedType == {"DEFAULT", "INFO", "ERROR", "WARNING", "SUCCESS", "POLL", "CASE", "NOTE"}

\* a key that is not a member of type_settings (a value that is no EmbedType)
UnmappedType == "UNMAPPED"

\* CONST.EMBED_COLORS (tux.utils.constants): one 24-bit integer per name
EMBED_COLORS ==
    [k \in EmbedType |->
        CASE k = "DEFAULT" -> 16044058
          [] k = "INFO"    -> 12634869
          [] k = "ERROR"   -> 16067173
          [] k = "WARNING" -> 16759808
          [] k = "SUCCESS" -> 10407530
          [] k = "POLL"    -> 14724968
          [] k = "CASE"    -> 16217742
          [] k = "NOTE"    -> 16752228]

\* CONST.EMBED_ICONS (tux.utils.constants): one icon URL per name
EMBED_ICONS ==
    [k \in EmbedType \ {"WARNING"} |-> "https://icons/" \o k \o ".png"]

\* type_settings: EmbedType -> (color, icon, label); WARNING uses the DEFAULT icon
type_settings ==
    [t \in EmbedType |->
        CASE t = "DEFAULT" -> <<EMBED_COLORS["DEFAULT"], EMBED_ICONS["DEFAULT"], "Default">>
          [] t = "INFO"    -> <<EMBED_COLORS["INFO"], EMBED_ICONS["INFO"], "Info">>
          [] t = "ERROR"   -> <<EMBED_COLORS["ERROR"], EMBED_ICONS["ERROR"], "Error">>
          [] t = "WARNING" -> <<EMBED_COLORS["WARNING"], EMBED_ICONS["DEFAULT"], "Warning">>
          [] t = "SUCCESS" -> <<EMBED_COLORS["SUCCESS"], EMBED_ICONS["SUCCESS"], "Success">>
          [] t = "POLL"    -> <<EMBED_COLORS["POLL"], EMBED_ICONS["POLL"], "Poll">>
          [] t = "CASE"    -> <<EMBED_COLORS["CASE"], EMBED_ICONS["CASE"], "Case">>
          [] t = "NOTE"    -> <<EMBED_COLORS["NOTE"], EMBED_ICONS["NOTE"], "Note">>]

\* Lookup reading the DEFAULT entry whatever the key
Lookup_DefaultEntry(embed_type, i) ==
    IF embed_type \in DOMAIN type_settings
    THEN Returns(type_settings["DEFAULT"][i + 1], <<>>)
    ELSE Raises("KeyError", <<>>)

\* type_settings[embed_type][i] (0-based i as in the source): KeyError on an unmapped key
Lookup(embed_type, i) ==
    IF embed_type \in DOMAIN type_settings
    THEN Returns(type_settings[embed_type][i + 1], <<>>)
    ELSE Raises("KeyError", <<>>)

----------------------------------------------------------------------------
(* The latency provider *)

\* a float latency of ticks / 10000 seconds
Float(ticks) == [kind |-> "float", ticks |-> ticks]

\* float("nan"): round() raises ValueError
NaN == [kind |-> "nan"]

\* the property read itself raises
Broken == [kind |-> "raises"]

\* bot.latency readings: 0, 0.5 ms, 1 ms, ... and 0.7 ms and 0.1234 s
Latencies == {Float(5 * k) : k \in 0..MaxLatencyHalfMs} \cup {Float(7), Float(1234)}

Bots == {None} \cup {Some(l) : l \in Latencies \cup {NaN, Broken}}

\* round(bot.latency * 1000)
RoundLatencyMs(bot) ==
    CASE bot.val.kind = "float"  -> Returns(Round(bot.val.ticks, 10), <<>>)
      [] bot.val.kind = "nan"    -> Raises("ValueError", <<>>)
      [] bot.val.kind = "raises" -> Raises("LatencyError", <<>>)

----------------------------------------------------------------------------
(* EmbedCreator.get_footer *)

DefaultAvatar == "https://i.imgur.com/4sblrd0.png"

\* get_footer without the fallback avatar
get_footer_NoFallback(bot, user_name, user_display_avatar) ==
    LET text1 == IF TruthyStr(user_name) THEN user_name.val \o "@atl $" ELSE "tux@atl $"
        ms    == IF TruthyObj(bot) THEN RoundLatencyMs(bot) ELSE Returns(0, <<>>)
    IN  IF ~ms.ok
        THEN Raises(ms.exc, <<"Error in get_footer">>)
        ELSE LET text == text1 \o (IF TruthyObj(bot) THEN " " \o ToString(ms.value) \o "ms" ELSE "")
             IN  Returns(<<text, user_display_avatar>>, <<>>)

get_footer(bot, user_name, user_display_avatar) ==
    LET text1 == IF TruthyStr(user_name) THEN user_name.val \o "@atl $" ELSE "tux@atl $"
        ms    == IF TruthyObj(bot) THEN RoundLatencyMs(bot) ELSE Returns(0, <<>>)
    IN  IF ~ms.ok
        THEN Raises(ms.exc, <<"Error in get_footer">>)
        ELSE LET text == text1 \o (IF TruthyObj(bot) THEN " " \o ToString(ms.value) \o "ms" ELSE "")
             IN  Returns(<<text, OrStr(user_display_avatar, Some(DefaultAvatar))>>, <<>>)

----------------------------------------------------------------------------
(* EmbedCreator.create_embed *)

\* embed.color = custom_color or type_settings[embed_type][0]
ResolveColor(embed_type, custom_color) ==
    IF TruthyInt(custom_color) THEN Returns(custom_color.val, <<>>) ELSE Lookup(embed_type, 0)

\* ResolveAuthorName testing "is not None" instead of truthiness
ResolveAuthorName_IsNotNone(embed_type, custom_author_text) ==
    IF custom_author_text.some THEN Returns(custom_author_text.val, <<>>) ELSE Lookup(embed_type, 2)

\* name=custom_author_text or type_settings[embed_type][2]
ResolveAuthorName(embed_type, custom_author_text) ==
    IF TruthyStr(custom_author_text) THEN Returns(custom_author_text.val, <<>>) ELSE Lookup(embed_type, 2)

\* ResolveAuthorIcon always taking the table icon
ResolveAuthorIcon_TableOnly(embed_type, custom_author_icon_url) == Lookup(embed_type, 1)

\* icon_url=custom_author_icon_url or type_settings[embed_type][1]
ResolveAuthorIcon(embed_type, custom_author_icon_url) ==
    IF TruthyStr(custom_author_icon_url) THEN Returns(custom_author_icon_url.val, <<>>) ELSE Lookup(embed_type, 1)

\* ResolveFooter falling back to the user's avatar when no custom footer icon is given
ResolveFooter_AvatarFallback(a) ==
    IF TruthyStr(a.custom_footer_text)
    THEN Returns([text |-> a.custom_footer_text.val,
                  icon_url |-> OrStr(a.custom_footer_icon_url, OrStr(a.user_display_avatar, Some(DefaultAvatar)))], <<>>)
    ELSE LET footer == get_footer(a.bot, a.user_name, a.user_display_avatar)
         IN  IF footer.ok
             THEN Returns([text |-> footer.value[1], icon_url |-> footer.value[2]], <<>>)
             ELSE footer

\* the footer branch: the custom footer if custom_footer_text is truthy, else get_footer
ResolveFooter(a) ==
    IF TruthyStr(a.custom_footer_text)
    THEN Returns([text |-> a.custom_footer_text.val, icon_url |-> a.custom_footer_icon_url], <<>>)
    ELSE LET footer == get_footer(a.bot, a.user_name, a.user_display_avatar)
         IN  IF footer.ok
             THEN Returns([text |-> footer.value[1], icon_url |-> footer.value[2]], <<>>)
             ELSE footer

\* if image_url: embed.set_image(url=image_url)
ResolveImage(a) == IF TruthyStr(a.image_url) THEN a.image_url ELSE None

\* ResolveThumbnail reading image_url
ResolveThumbnail_FromImage(a) == IF TruthyStr(a.image_url) THEN a.image_url ELSE None

\* if thumbnail_url: embed.set_thumbnail(url=thumbnail_url)
ResolveThumbnail(a) == IF TruthyStr(a.thumbnail_url) THEN a.thumbnail_url ELSE None

\* embed.timestamp = message_timestamp or discord.utils.utcnow()
ResolveTimestamp(message_timestamp, now) == OrObj(message_timestamp, Some(now)).val

\* the statements of the try block, in order; the first one that raises ends it
TryBody(a) ==
    LET color  == ResolveColor(a.embed_type, a.custom_color)
        name   == ResolveAuthorName(a.embed_type, a.custom_author_text)
        icon   == ResolveAuthorIcon(a.embed_type, a.custom_author_icon_url)
        footer == ResolveFooter(a)
    IN  IF ~color.ok THEN color
        ELSE IF ~name.ok THEN name
        ELSE IF ~icon.ok THEN icon
        ELSE IF ~footer.ok THEN footer
        ELSE Returns([title       |-> a.title,
                      description |-> a.description,
                      color       |-> color.value,
                      author      |-> [name |-> name.value, icon_url |-> icon.value],
                      footer      |-> footer.value,
                      image       |-> ResolveImage(a),
                      thumbnail   |-> ResolveThumbnail(a),
                      timestamp   |-> ResolveTimestamp(a.message_timestamp, a.now)], <<>>)

\* Except swallowing the exception and returning an empty embed
Except_Swallow(r) ==
    IF r.ok THEN r ELSE Returns([title |-> None, description |-> None], Append(r.log, "Error in create_embed"))

\* except Exception as e: logger.debug(...); raise / else: return embed
Except(r) ==
    IF r.ok THEN r ELSE Raises(r.exc, Append(r.log, "Error in create_embed"))

create_embed(a) == Except(TryBody(a))

----------------------------------------------------------------------------
(* Arguments a caller passes *)

EmbedTypes == EmbedType \cup {UnmappedType}

Titles == {Some("Title")}

Descriptions == {None}

UserNames == {None, Some(""), Some("alice")}

Avatars == {None, Some(""), Some("https://x/y.png")}

ImageUrls == {None, Some(""), Some("https://x/image.png")}

ThumbnailUrls == {None, Some(""), Some("https://x/thumb.png")}

Timestamps == {None, Some(1)}

\* discord.utils.utcnow() at the call
Nows == {2}

FooterTexts == {None, Some(""), Some("custom footer")}

FooterIcons == {None, Some("https://x/footer.png")}

AuthorTexts == {None, Some(""), Some("custom author")}

AuthorIcons == {None, Some(""), Some("https://x/author.png")}

Colors == {None, Some(0), Some(16777215)}

Args ==
    [embed_type : EmbedTypes, bot : Bots, title : Titles, description : Descriptions,
     user_name : UserNames, user_display_avatar : Avatars,
     image_url : ImageUrls, thumbnail_url : ThumbnailUrls,
     message_timestamp : Timestamps, now : Nows,
     custom_footer_text : FooterTexts, custom_footer_icon_url : FooterIcons,
     custom_author_text : AuthorTexts, custom_author_icon_url : AuthorIcons,
     custom_color : Colors]

\* create_embed(embed_type) with every option left at its default
NoOptions(t) ==
    [embed_type |-> t, bot |-> None, title |-> None, description |-> None,
     user_name |-> None, user_display_avatar |-> None,
     image_url |-> None, thumbnail_url |-> None,
     message_timestamp |-> None, now |-> 2,
     custom_footer_text |-> None, custom_footer_icon_url |-> None,
     custom_author_text |-> None, custom_author_icon_url |-> None,
     custom_color |-> None]

----------------------------------------------------------------------------
(* The caller's view: call, then either a returned embed or a raised exception *)

Init ==
    /\ pc = "idle"
    /\ args = NoOptions("DEFAULT")
    /\ embed = None
    /\ exc = None
    /\ log = <<>>

\* a caller invokes EmbedCreator.create_embed(...) with some arguments
Call ==
    /\ pc = "idle"
    /\ \E a \in Args \cup {NoOptions(t) : t \in EmbedType} : args' = a
    /\ pc' = "called"
    /\ embed' = None
    /\ exc' = None
    /\ log' = <<>>

\* the else branch of create_embed: return embed
Return ==
    /\ pc = "called"
    /\ create_embed(args).ok
    /\ pc' = "returned"
    /\ embed' = Some(create_embed(args).value)
    /\ log' = create_embed(args).log
    /\ UNCHANGED <<args, exc>>

\* the except branch of create_embed: the exception leaves the call
Raise ==
    /\ pc = "called"
    /\ ~create_embed(args).ok
    /\ pc' = "raised"
    /\ exc' = Some(create_embed(args).exc)
    /\ log' = create_embed(args).log
    /\ UNCHANGED <<args, embed>>

\* the caller is done with the outcome (nothing of a call is kept) and may call again
Done ==
    /\ pc \in {"returned", "raised"}
    /\ pc' = "idle"
    /\ args' = NoOptions("DEFAULT")
    /\ embed' = None
    /\ exc' = None
    /\ log' = <<>>

Next ==
    \/ Call
    \/ Return
    \/ Raise
    \/ Done

Spec == Init /\ [][Next]_vars

----------------------------------------------------------------------------
(* Properties.  In a state with pc = "returned", args are the arguments of    *)
(* the call and embed.val is the embed it returned.  An optional string is    *)
(* "provided" when it is a non-empty string (TruthyStr), unless a property    *)
(* says otherwise.                                                            *)

\* C1: for every type and every provided custom_color of the 24-bit range,
\* 0 included, the returned embed's color equals custom_color.
\* (Stated as claimed; the code falls back to the table color on custom_color = 0.)
C1_CustomColorOverrides ==
    (pc = "returned" /\ args.custom_color.some) => embed.val.color = args.custom_color.val

\* C2 as claimed: whatever string custom_footer_text is (the empty string
\* included), the footer is exactly (custom_footer_text, custom_footer_icon_url).
C2_AnyFooterTextOverrides ==
    (pc = "returned" /\ args.custom_footer_text.some) =>
        /\ embed.val.footer.text = args.custom_footer_text.val
        /\ embed.val.footer.icon_url = args.custom_footer_icon_url

\* C2 as amended: for every non-empty custom_footer_text and every combination
\* of bot, user_name and user_display_avatar, the footer text is
\* custom_footer_text and the footer icon is custom_footer_icon_url (absent
\* when custom_footer_icon_url is absent); get_footer contributes nothing.
C2_NonEmptyFooterTextOverrides ==
    (pc = "returned" /\ TruthyStr(args.custom_footer_text)) =>
        /\ embed.val.footer.text = args.custom_footer_text.val
        /\ embed.val.footer.icon_url = args.custom_footer_icon_url

C2_Witness ==
    /\ pc = "returned"
    /\ args.custom_footer_text = Some("custom footer")
    /\ args.custom_footer_icon_url = None
    /\ args.bot = Some(Float(1234))
    /\ args.user_name = Some("alice")
    /\ args.user_display_avatar = Some("https://x/y.png")
    /\ embed.val.footer = [text |-> "custom footer", icon_url |-> None]

\* C3: whenever custom_footer_icon_url is provided, with or without
\* custom_footer_text, the footer icon equals custom_footer_icon_url.
\* (Stated as claimed; the code ignores the icon unless custom_footer_text is truthy.)
C3_FooterIconOverrides ==
    (pc = "returned" /\ TruthyStr(args.custom_footer_icon_url)) =>
        embed.val.footer.icon_url = args.custom_footer_icon_url

\* C4: for each of the 8 types, a call with only the type returns the type's
\* table color, icon and label as color, author icon and author name, the
\* footer text "tux@atl $" and the fallback avatar as footer icon.
C4_NoOptionsGivesTableEntry ==
    \A t \in EmbedType :
        (pc = "returned" /\ args = NoOptions(t)) =>
            /\ embed.val.color = type_settings[t][1]
            /\ embed.val.author.icon_url = type_settings[t][2]
            /\ embed.val.author.name = type_settings[t][3]
            /\ embed.val.footer.text = "tux@atl $"
            /\ embed.val.footer.icon_url = Some("https://i.imgur.com/4sblrd0.png")

C4_Witness ==
    /\ pc = "returned"
    /\ args = NoOptions("WARNING")
    /\ embed.val.author = [name |-> "Warning", icon_url |-> EMBED_ICONS["DEFAULT"]]
    /\ embed.val.color = EMBED_COLORS["WARNING"]

\* C5: for every type, the author name is custom_author_text if provided and
\* the type's label otherwise, and the author icon is custom_author_icon_url
\* if provided and the type's icon otherwise, each decided by its own override only.
C5_AuthorFieldByField ==
    (pc = "returned" /\ args.embed_type \in EmbedType) =>
        /\ embed.val.author.name =
              IF TruthyStr(args.custom_author_text)
              THEN args.custom_author_text.val
              ELSE type_settings[args.embed_type][3]
        /\ embed.val.author.icon_url =
              IF TruthyStr(args.custom_author_icon_url)
              THEN args.custom_author_icon_url.val
              ELSE type_settings[args.embed_type][2]

C5_Witness ==
    /\ pc = "returned"
    /\ args.embed_type = "POLL"
    /\ args.custom_author_text = None
    /\ args.custom_author_icon_url = Some("https://x/author.png")
    /\ embed.val.author = [name |-> "Poll", icon_url |-> "https://x/author.png"]

\* C6: in every returned embed, whatever the options (empty texts and a zero
\* custom color included), color is an integer and the author name and the
\* footer text are non-empty strings.
C6_AlwaysPopulated ==
    pc = "returned" =>
        /\ embed.val.color \in Int
        /\ embed.val.author.name # ""
        /\ embed.val.footer.text # ""

C6_Witness ==
    /\ pc = "returned"
    /\ args.custom_author_text = Some("")
    /\ args.custom_footer_text = Some("")
    /\ args.custom_color = Some(0)
    /\ args.user_name = Some("")
    /\ embed.val.author.name # ""
    /\ embed.val.footer.text = "tux@atl $"

\* C7: without a custom footer text, the footer text is "<name>@atl $", name
\* being user_name if given and "tux" otherwise, followed by " <N>ms" exactly
\* when a bot is passed, N being an integer nearest to latency * 1000
\* (ticks / 10); "alice" without a bot gives "alice@atl $" and a latency of
\* 0.1234 s without user_name gives "tux@atl $ 123ms".
C7_DefaultFooterText ==
    (pc = "returned" /\ ~TruthyStr(args.custom_footer_text)) =>
        LET name   == IF TruthyStr(args.user_name) THEN args.user_name.val ELSE "tux"
            prompt == name \o "@atl $"
            text   == embed.val.footer.text
        IN  /\ ~args.bot.some => text = prompt
            /\ args.bot.some =>
                  \E N \in 0..(args.bot.val.ticks \div 10 + 1) :
                      /\ 2 * (10 * N - args.bot.val.ticks) <= 10
                      /\ 2 * (args.bot.val.ticks - 10 * N) <= 10
                      /\ text = prompt \o " " \o ToString(N) \o "ms"
            /\ (args.user_name = Some("alice") /\ ~args.bot.some) => text = "alice@atl $"
            /\ (~args.user_name.some /\ args.bot = Some(Float(1234))) => text = "tux@atl $ 123ms"

C7_Witness ==
    /\ pc = "returned"
    /\ args.custom_footer_text = None
    /\ args.user_name = Some("alice")
    /\ args.bot = Some(Float(7))
    /\ embed.val.footer.text = "alice@atl $ 1ms"

\* C8: without a custom footer text, the footer icon is user_display_avatar if
\* given and the fallback URL otherwise, whatever the type, the bot and
\* user_name; it is never absent.
C8_DefaultFooterIcon ==
    (pc = "returned" /\ ~TruthyStr(args.custom_footer_text)) =>
        /\ embed.val.footer.icon_url =
              IF TruthyStr(args.user_display_avatar)
              THEN args.user_display_avatar
              ELSE Some("https://i.imgur.com/4sblrd0.png")
        /\ embed.val.footer.icon_url.some
        /\ embed.val.footer.icon_url.val # ""

C8_Witness ==
    /\ pc = "returned"
    /\ args.custom_footer_text = None
    /\ args.custom_footer_icon_url = None
    /\ args.user_display_avatar = None
    /\ args.bot = Some(Float(5))
    /\ args.embed_type = "CASE"
    /\ embed.val.footer.icon_url = Some("https://i.imgur.com/4sblrd0.png")

\* the table lookup is evaluated (some custom_ value is falsy) on an unmapped key
KeyFails ==
    /\ args.embed_type \notin EmbedType
    /\ \/ ~TruthyInt(args.custom_color)
       \/ ~TruthyStr(args.custom_author_text)
       \/ ~TruthyStr(args.custom_author_icon_url)

\* get_footer is called with a bot whose latency read fails or is malformed
LatencyFails ==
    /\ ~TruthyStr(args.custom_footer_text)
    /\ args.bot.some
    /\ args.bot.val.kind \in {"nan", "raises"}

\* C9: a failure raised while building the embed (KeyError of the table
\* lookup, a failing or malformed latency read in get_footer) leaves
\* create_embed as that same exception, logged by every handler it passes;
\* no embed is returned from such a call, and a call that returns raised nothing.
C9_FailuresPropagate ==
    pc \in {"returned", "raised"} =>
        /\ KeyFails =>
              /\ pc = "raised"
              /\ exc = Some("KeyError")
              /\ log = <<"Error in create_embed">>
        /\ (~KeyFails /\ LatencyFails) =>
              /\ pc = "raised"
              /\ exc = Some(IF args.bot.val.kind = "nan" THEN "ValueError" ELSE "LatencyError")
              /\ log = <<"Error in get_footer", "Error in create_embed">>
        /\ pc = "raised" => (embed = None /\ exc.some)
        /\ pc = "returned" => (embed.some /\ exc = None /\ log = <<>>)

C9_Witness ==
    /\ pc = "raised"
    /\ args.embed_type \in EmbedType
    /\ args.bot = Some(NaN)
    /\ exc = Some("ValueError")
    /\ embed = None
    /\ log = <<"Error in get_footer", "Error in create_embed">>

\* C10: the image is absent when image_url is not supplied and equals it when
\* supplied, and likewise the thumbnail for thumbnail_url, each whatever the
\* type and the other options.
C10_ImageAndThumbnail ==
    pc = "returned" =>
        /\ embed.val.image = (IF TruthyStr(args.image_url) THEN args.image_url ELSE None)
        /\ embed.val.thumbnail = (IF TruthyStr(args.thumbnail_url) THEN args.thumbnail_url ELSE None)

C10_Witness ==
    /\ pc = "returned"
    /\ args.image_url = Some("https://x/image.png")
    /\ args.thumbnail_url = None
    /\ embed.val.image = Some("https://x/image.png")
    /\ embed.val.thumbnail = None

====
